---- MODULE Spec2Model ----
(***************************************************************************)
(* State-machine model of the SCIM gateway plugin                          *)
(* src/scimgateway/lib/plugin-mongodb-new-connector.js: the eight plugin   *)
(* methods (getUsers, createUser, deleteUser, modifyUser, getGroups,       *)
(* createGroup, deleteGroup, modifyGroup) running against the two Prisma   *)
(* collections userSchema and groupSchema.  One action is one storage call *)
(* of a method together with the synchronous code around it, so that       *)
(* everything between two awaits of a storage call is atomic.              *)
(***************************************************************************)
EXTENDS Integers, Sequences, FiniteSets, TLC

\* ------------------------------------------------------------------ bounds
\* Longest attrObj.members list of a modifyGroup call.
MaxMemberOps == 2
\* Cleanup updates outstanding when a further deleteUser is called.
MaxInflight == 2

Procs == {1, 2}
\* The primary keys the storage generates, in the order it hands them out.
UserIds == <<"u1", "u2">>
GroupIds == <<"g1">>
UserNames == {"ann", "bob"}
DisplayNames == {"dev", "ops"}
NULL == "null"
Empty == <<>>

Range(s) == {s[i] : i \in 1..Len(s)}

\* ------------------------------------------------- endpointMapper / config
\* config.map.user and config.map.group: (canonical path, storage path).
UserMap ==
  {[scim |-> "id", store |-> "id"], [scim |-> "userName", store |-> "login"]}

GroupMap ==
  {[scim |-> "id", store |-> "id"], [scim |-> "displayName", store |-> "name"]}

\* scimgateway.endpointMapper(direction, obj, map).then(res => res[0]):
\* copies every declared entry present in obj to its target path and drops
\* everything else.
endpointMapper(direction, obj, map) ==
  LET from == IF direction = "outbound" THEN "scim" ELSE "store"
      to == IF direction = "outbound" THEN "store" ELSE "scim"
      used == {e \in map : e[from] \in DOMAIN obj}
  IN [f \in {e[to] : e \in used} |->
        obj[(CHOOSE e \in used : e[to] = f)[from]]]

\* --------------------------------------------------------- storage (Prisma)
Matches(row, where) ==
  \A f \in DOMAIN where : f \in DOMAIN row /\ row[f] = where[f]

\* schema.findMany({ where }) ; an undefined or empty where matches all rows.
findMany(table, where) == {r \in table : Matches(r, where)}

\* The rows of a findMany as the array the code iterates, in key order.
RECURSIVE Rows(_, _)
Rows(ids, set) ==
  IF ids = <<>> THEN <<>>
  ELSE LET here == {r \in set : r.id = Head(ids)}
       IN (IF here = {} THEN <<>> ELSE <<CHOOSE r \in here : TRUE>>)
            \o Rows(Tail(ids), set)

\* groupSchema.findMany({ where: { members: { has: key } } })
findManyHas(table, key) == {g \in table : key \in Range(g.members)}

\* userSchema.findMany({ where: { id: { in: keys } } })
findManyIn(table, keys) == {u \in table : u.id \in Range(keys)}

\* array.filter((item) => item !== key)
RECURSIVE Without(_, _)
Without(s, key) ==
  IF s = <<>> THEN <<>>
  ELSE (IF Head(s) = key THEN <<>> ELSE <<Head(s)>>) \o Without(Tail(s), key)

\* schema.update({ where, data }): the matching row with data's fields set.
Patch(row, data) ==
  [f \in DOMAIN row |-> IF f \in DOMAIN data THEN data[f] ELSE row[f]]

\* -------------------------------------------------------------------- state
VARIABLES
  users,      \* userSchema: set of [id, login]
  groups,     \* groupSchema: set of [id, name, members]
  nextUser,   \* user primary keys generated so far
  nextGroup,  \* group primary keys generated so far
  pc,         \* per running method: the storage call it is about to issue
  call,       \* per running method: the method and its arguments
  loc,        \* per running method: its local variables
  res,        \* per running method: what its promise settled to
  log,        \* per running method: the storage calls it has issued
  inflight    \* group updates dispatched by deleteUser's forEach, not yet settled

vars ==
  <<users, groups, nextUser, nextGroup, pc, call, loc, res, log, inflight>>

NoCall == [op |-> "", getObj |-> Empty, id |-> "", obj |-> Empty]

NoLoc ==
  [filter |-> Empty, rows |-> Empty, row |-> 0, Resources |-> Empty,
   user |-> Empty, selected |-> Empty, snapshot |-> Empty,
   newMembers |-> Empty, shared |-> FALSE, memberIndex |-> 0,
   found |-> Empty, data |-> Empty, gone |-> {}, rejected |-> FALSE]

NoRes == [status |-> "pending", error |-> "", value |-> NULL]

Init ==
  /\ users = {}
  /\ groups = {}
  /\ nextUser = 0
  /\ nextGroup = 0
  /\ pc = [p \in Procs |-> "idle"]
  /\ call = [p \in Procs |-> NoCall]
  /\ loc = [p \in Procs |-> NoLoc]
  /\ res = [p \in Procs |-> NoRes]
  /\ log = [p \in Procs |-> Empty]
  /\ inflight = {}

\* ----------------------------------------------------------------- helpers
Ok(v) == [status |-> "ok", error |-> "", value |-> v]

Err(e) == [status |-> "error", error |-> e, value |-> NULL]

\* main() has ended: resolve/reject is called, the finally handler is next.
\* Settle without the .finally handler: the call is over once main() has
\* settled, and the session is never released.
SettleNoFinally(p, r) ==
  /\ pc' = [pc EXCEPT ![p] = "done"]
  /\ res' = [res EXCEPT ![p] = r]

Settle(p, r) ==
  /\ pc' = [pc EXCEPT ![p] = "finally"]
  /\ res' = [res EXCEPT ![p] = r]

Goto(p, label) ==
  /\ pc' = [pc EXCEPT ![p] = label]
  /\ res' = res

Issue(p, fn, on) == log' = [log EXCEPT ![p] = Append(@, [fn |-> fn, on |-> on])]

Allocated == {UserIds[i] : i \in 1..nextUser}

\* User keys the storage generated whose record has been deleted.
Deleted == Allocated \ {u.id : u \in users}

\* ----------------------------------------------------- the callers' inputs
Pred(operator, attribute, value, rawFilter) ==
  [operator |-> operator, attribute |-> attribute, value |-> value,
   rawFilter |-> rawFilter]

UserGetObjs ==
  {Pred("", "", "", "")}
    \cup {Pred("eq", "userName", v, r) : v \in UserNames, r \in {"", "raw"}}
    \cup {Pred("eq", "id", "ann", "raw"),
          Pred("eq", "group.value", "g1", "raw"),
          Pred("eq", "emails", "ann", "raw"),
          Pred("co", "userName", "ann", "raw"),
          Pred("sw", "userName", "ann", "raw"),
          Pred("", "", "", "raw")}

GroupGetObjs ==
  {Pred("", "", "", "")}
    \cup {Pred("eq", "id", GroupIds[1], r) : r \in {"", "raw"}}
    \cup {Pred("eq", "displayName", "dev", "raw"),
          Pred("eq", "displayName", GroupIds[1], "raw"),
          Pred("eq", "members.value", UserIds[1], "raw"),
          Pred("eq", "description", "dev", "raw"),
          Pred("co", "displayName", "dev", "raw"),
          Pred("", "", "", "raw")}

MemberOps == [value : UserNames, operation : {"add", "delete"}]

MemberLists == UNION {[1..n -> MemberOps] : n \in 0..MaxMemberOps}

Calls ==
  {[op |-> "getUsers", getObj |-> g, id |-> "", obj |-> Empty] : g \in UserGetObjs}
    \cup {[op |-> "getGroups", getObj |-> g, id |-> "", obj |-> Empty] :
            g \in GroupGetObjs}
    \cup {[op |-> "createUser", getObj |-> Empty, id |-> "",
           obj |-> [userName |-> n]] : n \in UserNames}
    \cup {[op |-> "createGroup", getObj |-> Empty, id |-> "",
           obj |-> [displayName |-> d]] : d \in DisplayNames}
    \cup {[op |-> "deleteUser", getObj |-> Empty, id |-> n, obj |-> Empty] :
            n \in UserNames}
    \cup {[op |-> "deleteGroup", getObj |-> Empty, id |-> GroupIds[i],
           obj |-> Empty] : i \in 1..Len(GroupIds)}
    \cup {[op |-> "modifyUser", getObj |-> Empty, id |-> n,
           obj |-> [userName |-> m]] : n \in UserNames, m \in UserNames}
    \cup {[op |-> "modifyUser", getObj |-> Empty, id |-> n,
           obj |-> [title |-> "x"]] : n \in UserNames}
    \cup {[op |-> "modifyGroup", getObj |-> Empty, id |-> GroupIds[i],
           obj |-> [members |-> ms]] : i \in 1..Len(GroupIds), ms \in MemberLists}
    \cup {[op |-> "modifyGroup", getObj |-> Empty, id |-> GroupIds[i],
           obj |-> [displayName |-> d, members |-> <<>>]] :
            i \in 1..Len(GroupIds), d \in DisplayNames}
    \cup {[op |-> "modifyGroup", getObj |-> Empty, id |-> GroupIds[i],
           obj |-> [id |-> "g9", displayName |-> d, members |-> ms]] :
            i \in 1..Len(GroupIds), d \in DisplayNames,
            ms \in UNION {[1..n -> MemberOps] : n \in 0..1}}

\* ------------------------------------------------ the mandatory if-else logic
\* getUsersFilter whose unique lookup forgets the value and lists every user.
getUsersFilterAll(getObj) ==
  IF getObj.operator # ""
  THEN IF getObj.operator = "eq"
            /\ getObj.attribute \in {"id", "userName", "externalId"}
       THEN [error |-> "", filter |-> Empty]
       ELSE IF getObj.operator = "eq" /\ getObj.attribute = "group.value"
       THEN [error |-> "groupsMemberOfUser", filter |-> Empty]
       ELSE [error |-> "simpelFiltering", filter |-> Empty]
  ELSE IF getObj.rawFilter # ""
  THEN [error |-> "advancedFiltering", filter |-> Empty]
  ELSE [error |-> "", filter |-> Empty]

\* getUsersFilter with the empty branches of getGroups: a predicate that is no
\* unique lookup leaves the filter unset instead of throwing.
getUsersFilterLenient(getObj) ==
  IF getObj.operator # ""
       /\ getObj.operator = "eq"
       /\ getObj.attribute \in {"id", "userName", "externalId"}
  THEN [error |-> "",
        filter |-> endpointMapper("outbound", [userName |-> getObj.value],
                                  UserMap)]
  ELSE IF getObj.operator = "" /\ getObj.rawFilter # ""
  THEN [error |-> "advancedFiltering", filter |-> Empty]
  ELSE [error |-> "", filter |-> Empty]

\* getUsers, lines 54-97: the storage filter, or the error thrown.
getUsersFilter(getObj) ==
  IF getObj.operator # ""
  THEN IF getObj.operator = "eq"
            /\ getObj.attribute \in {"id", "userName", "externalId"}
       THEN [error |-> "",
             filter |-> endpointMapper("outbound", [userName |-> getObj.value],
                                       UserMap)]
       ELSE IF getObj.operator = "eq" /\ getObj.attribute = "group.value"
       THEN [error |-> "groupsMemberOfUser", filter |-> Empty]
       ELSE [error |-> "simpelFiltering", filter |-> Empty]
  ELSE IF getObj.rawFilter # ""
  THEN [error |-> "advancedFiltering", filter |-> Empty]
  ELSE [error |-> "", filter |-> Empty]

\* getGroups, lines 341-368: only the unique lookup sets filter; every other
\* branch is empty and leaves it undefined, which findMany takes as no filter.
getGroupsFilter(getObj) ==
  IF getObj.operator # ""
       /\ getObj.operator = "eq"
       /\ getObj.attribute \in {"id", "displayName", "externalId"}
  THEN [error |-> "",
        filter |-> endpointMapper("outbound", [id |-> getObj.value], GroupMap)]
  ELSE [error |-> "", filter |-> Empty]

\* The first storage call of each method.
Entry(op) ==
  CASE op = "getUsers" -> "gu_rows"
    [] op = "getGroups" -> "gg_rows"
    [] op = "createUser" -> "cu_create"
    [] op = "createGroup" -> "cg_create"
    [] op = "deleteUser" -> "du_find"
    [] op = "deleteGroup" -> "dg_find"
    [] op = "modifyUser" -> "mu_find"
    [] op = "modifyGroup" -> "mg_find"

\* A plugin method is called.  The code up to its first storage call runs at
\* once: a filter error is thrown before the try block, so the call rejects
\* without reaching main() or the finally handler.
Start(p, c) ==
  /\ pc[p] = "idle"
  /\ c \in Calls
  /\ c.op = "createUser" =>
       \/ nextUser < Len(UserIds)
       \/ \E u \in users : u.login = c.obj.userName
  /\ c.op = "deleteUser" => Cardinality(inflight) < MaxInflight
  /\ LET f == IF c.op = "getUsers" THEN getUsersFilter(c.getObj)
              ELSE IF c.op = "getGroups" THEN getGroupsFilter(c.getObj)
              ELSE [error |-> "", filter |-> Empty]
     IN /\ call' = [call EXCEPT ![p] = c]
        /\ loc' = [loc EXCEPT ![p] =
                     [NoLoc EXCEPT !.filter = f.filter,
                                   !.gone = IF c.op = "getGroups" THEN Deleted
                                            ELSE {}]]
        /\ IF f.error # ""
           THEN /\ pc' = [pc EXCEPT ![p] = "done"]
                /\ res' = [res EXCEPT ![p] = Err(f.error)]
           ELSE /\ pc' = [pc EXCEPT ![p] = Entry(c.op)]
                /\ res' = [res EXCEPT ![p] = NoRes]
  /\ UNCHANGED <<users, groups, nextUser, nextGroup, log, inflight>>

\* .finally(async () => { await prisma.$disconnect(); }): the last step of a
\* call that entered main(); the caller already holds the settled promise, and
\* the invocation's record is dropped.
Disconnect(p) ==
  /\ pc[p] = "finally"
  /\ pc' = [pc EXCEPT ![p] = "idle"]
  /\ call' = [call EXCEPT ![p] = NoCall]
  /\ loc' = [loc EXCEPT ![p] = NoLoc]
  /\ res' = [res EXCEPT ![p] = NoRes]
  /\ log' = [log EXCEPT ![p] = Empty]
  /\ UNCHANGED <<users, groups, nextUser, nextGroup, inflight>>

\* A call that threw before its try block never reaches the finally handler:
\* the caller takes the rejection and the invocation is over.
Return(p) ==
  /\ pc[p] = "done"
  /\ pc' = [pc EXCEPT ![p] = "idle"]
  /\ call' = [call EXCEPT ![p] = NoCall]
  /\ loc' = [loc EXCEPT ![p] = NoLoc]
  /\ res' = [res EXCEPT ![p] = NoRes]
  /\ log' = [log EXCEPT ![p] = Empty]
  /\ UNCHANGED <<users, groups, nextUser, nextGroup, inflight>>

\* ---------------------------------------------------------------- createUser
\* CreateUser over a storage without the unique index on the login: the
\* record is inserted next to the one that holds the name.
CreateUserNoUniqueIndex(p) ==
  /\ pc[p] = "cu_create"
  /\ Issue(p, "create", "user")
  /\ LET newUser == endpointMapper("outbound", call[p].obj, UserMap)
         row == [id |-> UserIds[nextUser + 1], login |-> newUser.login]
     IN IF nextUser >= Len(UserIds)
        THEN /\ Settle(p, Err("errorAtField"))
             /\ UNCHANGED <<users, nextUser>>
        ELSE /\ users' = users \cup {row}
             /\ nextUser' = nextUser + 1
             /\ Settle(p, Ok(row))
  /\ UNCHANGED <<groups, nextGroup, call, loc, inflight>>

\* lines 168-181
CreateUser(p) ==
  /\ pc[p] = "cu_create"
  /\ Issue(p, "create", "user")
  /\ LET newUser == endpointMapper("outbound", call[p].obj, UserMap)
         row == [id |-> UserIds[nextUser + 1], login |-> newUser.login]
     IN IF \E u \in users : u.login = newUser.login
        THEN /\ Settle(p, Err("duplicateKey"))
             /\ UNCHANGED <<users, nextUser>>
        ELSE IF nextUser >= Len(UserIds)
        THEN /\ Settle(p, Err("errorAtField"))
             /\ UNCHANGED <<users, nextUser>>
        ELSE /\ users' = users \cup {row}
             /\ nextUser' = nextUser + 1
             /\ Settle(p, Ok(row))
  /\ UNCHANGED <<groups, nextGroup, call, loc, inflight>>

\* --------------------------------------------------------------- createGroup
\* CreateGroup whose catch handler logs the storage error and returns: the
\* call resolves although nothing was written.
CreateGroupSwallow(p) ==
  /\ pc[p] = "cg_create"
  /\ Issue(p, "create", "group")
  /\ LET newGroup == endpointMapper("outbound", call[p].obj, GroupMap)
         row == [id |-> GroupIds[nextGroup + 1], name |-> newGroup.name,
                 members |-> <<>>]
     IN IF (\E g \in groups : g.name = newGroup.name) \/ nextGroup >= Len(GroupIds)
        THEN /\ Settle(p, Ok(NULL))
             /\ UNCHANGED <<groups, nextGroup>>
        ELSE /\ groups' = groups \cup {row}
             /\ nextGroup' = nextGroup + 1
             /\ Settle(p, Ok(NULL))
  /\ UNCHANGED <<users, nextUser, call, loc, inflight>>

\* lines 440-455
CreateGroup(p) ==
  /\ pc[p] = "cg_create"
  /\ Issue(p, "create", "group")
  /\ LET newGroup == endpointMapper("outbound", call[p].obj, GroupMap)
         row == [id |-> GroupIds[nextGroup + 1], name |-> newGroup.name,
                 members |-> <<>>]
     IN IF \E g \in groups : g.name = newGroup.name
        THEN /\ Settle(p, Err("duplicateKey"))
             /\ UNCHANGED <<groups, nextGroup>>
        ELSE IF nextGroup >= Len(GroupIds)
        THEN /\ Settle(p, Err("errorAtField"))
             /\ UNCHANGED <<groups, nextGroup>>
        ELSE /\ groups' = groups \cup {row}
             /\ nextGroup' = nextGroup + 1
             /\ Settle(p, Ok(NULL))
  /\ UNCHANGED <<users, nextUser, call, loc, inflight>>

\* ---------------------------------------------------------------- deleteUser
\* lines 212-220: userSchema.findUnique by the mapped userName
DuFind(p) ==
  /\ pc[p] = "du_find"
  /\ Issue(p, "findUnique", "user")
  /\ LET where == endpointMapper("outbound", [userName |-> call[p].id], UserMap)
         found == findMany(users, where)
     IN IF found = {}
        THEN /\ Settle(p, Err("userNotFound"))
             /\ loc' = loc
        ELSE /\ Goto(p, "du_groups")
             /\ loc' = [loc EXCEPT ![p].user = CHOOSE u \in found : TRUE]
  /\ UNCHANGED <<users, groups, nextUser, nextGroup, call, inflight>>

\* The update each forEach callback issues for its group (lines 227-230).
cleanupUpdate(group, user) ==
  [id |-> group.id, members |-> Without(group.members, user.id), user |-> user.id]

\* lines 222-231: groupSchema.findMany, then groups.forEach(async ...): every
\* callback issues its update and returns a promise that forEach drops, so
\* the await on forEach's undefined result waits for none of them.
DuGroups(p) ==
  /\ pc[p] = "du_groups"
  /\ Issue(p, "findMany", "group")
  /\ LET found == findManyHas(groups, loc[p].user.id)
     IN /\ inflight' = inflight \cup {cleanupUpdate(g, loc[p].user) : g \in found}
        /\ loc' = [loc EXCEPT ![p].rows = Rows(GroupIds, found)]
  /\ Goto(p, "du_delete")
  /\ UNCHANGED <<users, groups, nextUser, nextGroup, call>>

\* DuDelete over a delete that takes a missing record as done (deleteMany):
\* no P2025, the call resolves.
DuDeleteMany(p) ==
  /\ pc[p] = "du_delete"
  /\ Issue(p, "delete", "user")
  /\ LET where == endpointMapper("outbound", [userName |-> call[p].id], UserMap)
         found == findMany(users, where)
     IN /\ Settle(p, Ok(NULL))
        /\ users' = users \ found
  /\ UNCHANGED <<groups, nextUser, nextGroup, call, loc, inflight>>

\* lines 233-245: userSchema.delete by the mapped userName
DuDelete(p) ==
  /\ pc[p] = "du_delete"
  /\ Issue(p, "delete", "user")
  /\ LET where == endpointMapper("outbound", [userName |-> call[p].id], UserMap)
         found == findMany(users, where)
     IN IF found = {}
        THEN /\ Settle(p, Err("userNotFound"))
             /\ users' = users
        ELSE /\ Settle(p, Ok(NULL))
             /\ users' = users \ found
  /\ UNCHANGED <<groups, nextUser, nextGroup, call, loc, inflight>>

\* The running deleteUser calls told of a rejected cleanup update: none, the
\* promise of the update was dropped by forEach (line 226).  loc[p].rejected
\* only records that an update dispatched by the call p has been rejected.
Rejected(m) ==
  [p \in Procs |->
     IF call[p].op = "deleteUser" /\ loc[p].user # Empty /\ loc[p].user.id = m.user
     THEN [loc[p] EXCEPT !.rejected = TRUE]
     ELSE loc[p]]

\* A dispatched cleanup update reaches the storage (lines 227-230).  When the
\* group is gone the update is rejected, and the rejection has no handler.
CleanupApplied(m) ==
  /\ m \in inflight
  /\ inflight' = inflight \ {m}
  /\ IF \E g \in groups : g.id = m.id
     THEN /\ groups' = {IF g.id = m.id THEN Patch(g, [members |-> m.members])
                        ELSE g : g \in groups}
          /\ loc' = loc
     ELSE /\ groups' = groups
          /\ loc' = Rejected(m)
  /\ UNCHANGED <<users, nextUser, nextGroup, pc, call, res, log>>

\* A dispatched cleanup update fails in the storage: the rejected promise was
\* dropped by forEach, so nothing observes the failure.
CleanupRejected(m) ==
  /\ m \in inflight
  /\ inflight' = inflight \ {m}
  /\ loc' = Rejected(m)
  /\ UNCHANGED <<users, groups, nextUser, nextGroup, pc, call, res, log>>

\* ---------------------------------------------------------------- modifyUser
\* MuFind without the else branch of line 296: a missing user goes on to the
\* update.
MuFindNoCheck(p) ==
  /\ pc[p] = "mu_find"
  /\ Issue(p, "findUnique", "user")
  /\ LET updatedUser == endpointMapper("outbound", call[p].obj, UserMap)
         where == endpointMapper("outbound", [userName |-> call[p].id], UserMap)
         found == findMany(users, where)
     IN /\ Goto(p, "mu_update")
        /\ loc' = [loc EXCEPT ![p].user = IF found = {} THEN Empty
                                           ELSE CHOOSE u \in found : TRUE,
                              ![p].data = updatedUser]
  /\ UNCHANGED <<users, groups, nextUser, nextGroup, call, inflight>>

\* lines 279-287, 296-298
MuFind(p) ==
  /\ pc[p] = "mu_find"
  /\ Issue(p, "findUnique", "user")
  /\ LET updatedUser == endpointMapper("outbound", call[p].obj, UserMap)
         where == endpointMapper("outbound", [userName |-> call[p].id], UserMap)
         found == findMany(users, where)
     IN IF found = {}
        THEN /\ Settle(p, Err("userNotFound"))
             /\ loc' = loc
        ELSE /\ Goto(p, "mu_update")
             /\ loc' = [loc EXCEPT ![p].user = CHOOSE u \in found : TRUE,
                                   ![p].data = updatedUser]
  /\ UNCHANGED <<users, groups, nextUser, nextGroup, call, inflight>>

\* MuUpdate over an update that replaces the record: a field the data does
\* not name is cleared.
MuUpdateReplace(p) ==
  /\ pc[p] = "mu_update"
  /\ Issue(p, "update", "user")
  /\ LET where == endpointMapper("outbound", [userName |-> call[p].id], UserMap)
         found == findMany(users, where)
         data == loc[p].data
         replaced(u) == [f \in DOMAIN u |->
                           IF f \in DOMAIN data THEN data[f]
                           ELSE IF f = "id" THEN u.id ELSE ""]
     IN IF found = {}
           \/ \E u \in users \ found : "login" \in DOMAIN data /\ u.login = data.login
        THEN /\ Settle(p, Err("storageError"))
             /\ users' = users
        ELSE /\ Settle(p, Ok(NULL))
             /\ users' = (users \ found) \cup {replaced(u) : u \in found}
  /\ UNCHANGED <<groups, nextUser, nextGroup, call, loc, inflight>>

\* MuUpdate that also takes the key of the changed user out of every group,
\* as if the record were stored anew.
MuUpdateDetach(p) ==
  /\ pc[p] = "mu_update"
  /\ Issue(p, "update", "user")
  /\ LET where == endpointMapper("outbound", [userName |-> call[p].id], UserMap)
         found == findMany(users, where)
         data == loc[p].data
     IN IF found = {}
           \/ \E u \in users \ found : "login" \in DOMAIN data /\ u.login = data.login
        THEN /\ Settle(p, Err("storageError"))
             /\ users' = users
             /\ groups' = groups
        ELSE /\ Settle(p, Ok(NULL))
             /\ users' = (users \ found) \cup {Patch(u, data) : u \in found}
             /\ groups' = {Patch(g, [members |->
                                      Without(g.members, loc[p].user.id)]) :
                             g \in groups}
  /\ UNCHANGED <<nextUser, nextGroup, call, loc, inflight>>

\* lines 289-295: userSchema.update; the storage rejects a vanished record
\* and a login that another record holds.
MuUpdate(p) ==
  /\ pc[p] = "mu_update"
  /\ Issue(p, "update", "user")
  /\ LET where == endpointMapper("outbound", [userName |-> call[p].id], UserMap)
         found == findMany(users, where)
         data == loc[p].data
     IN IF found = {}
           \/ \E u \in users \ found : "login" \in DOMAIN data /\ u.login = data.login
        THEN /\ Settle(p, Err("storageError"))
             /\ users' = users
        ELSE /\ Settle(p, Ok(NULL))
             /\ users' = (users \ found) \cup {Patch(u, data) : u \in found}
  /\ UNCHANGED <<groups, nextUser, nextGroup, call, loc, inflight>>

\* --------------------------------------------------------------- deleteGroup
\* DgFind whose not-found path neither resolves nor rejects the promise of the
\* call: the caller waits on.
DgFindHang(p) ==
  /\ pc[p] = "dg_find"
  /\ Issue(p, "findUnique", "group")
  /\ LET where == endpointMapper("outbound", [id |-> call[p].id], GroupMap)
     IN IF findMany(groups, where) = {}
        THEN Goto(p, "dg_wait")
        ELSE Goto(p, "dg_delete")
  /\ UNCHANGED <<users, groups, nextUser, nextGroup, call, loc, inflight>>

\* lines 486-494
DgFind(p) ==
  /\ pc[p] = "dg_find"
  /\ Issue(p, "findUnique", "group")
  /\ LET where == endpointMapper("outbound", [id |-> call[p].id], GroupMap)
     IN IF findMany(groups, where) = {}
        THEN Settle(p, Err("groupNotFound"))
        ELSE Goto(p, "dg_delete")
  /\ UNCHANGED <<users, groups, nextUser, nextGroup, call, loc, inflight>>

\* DgDelete whose delete has no where clause: every group record goes.
DgDeleteAll(p) ==
  /\ pc[p] = "dg_delete"
  /\ Issue(p, "delete", "group")
  /\ LET where == endpointMapper("outbound", [id |-> call[p].id], GroupMap)
         found == findMany(groups, where)
     IN IF found = {}
        THEN /\ Settle(p, Err("groupNotFound"))
             /\ groups' = groups
        ELSE /\ Settle(p, Ok(NULL))
             /\ groups' = {}
  /\ UNCHANGED <<users, nextUser, nextGroup, call, loc, inflight>>

\* lines 496-508
DgDelete(p) ==
  /\ pc[p] = "dg_delete"
  /\ Issue(p, "delete", "group")
  /\ LET where == endpointMapper("outbound", [id |-> call[p].id], GroupMap)
         found == findMany(groups, where)
     IN IF found = {}
        THEN /\ Settle(p, Err("groupNotFound"))
             /\ groups' = groups
        ELSE /\ Settle(p, Ok(NULL))
             /\ groups' = groups \ found
  /\ UNCHANGED <<users, nextUser, nextGroup, call, loc, inflight>>

\* --------------------------------------------------------------- modifyGroup
\* MgFind that writes the scalar attributes of the request at once, before
\* the member operations are looked at.
MgFindEager(p) ==
  /\ pc[p] = "mg_find"
  /\ Issue(p, "findUnique", "group")
  /\ LET where == endpointMapper("outbound", [id |-> call[p].id], GroupMap)
         found == findMany(groups, where)
         selectedGroup == CHOOSE g \in found : TRUE
         scalars == [f \in DOMAIN endpointMapper("outbound", call[p].obj, GroupMap)
                            \ {"id"} |->
                       endpointMapper("outbound", call[p].obj, GroupMap)[f]]
     IN IF found = {}
        THEN /\ Settle(p, Err("groupNotFound"))
             /\ loc' = loc
             /\ groups' = groups
        ELSE /\ Goto(p, IF Len(call[p].obj.members) > 0 THEN "mg_user"
                        ELSE "mg_update")
             /\ loc' = [loc EXCEPT ![p].selected = selectedGroup.members,
                                   ![p].snapshot = selectedGroup.members,
                                   ![p].newMembers = selectedGroup.members,
                                   ![p].shared = TRUE,
                                   ![p].memberIndex = 1]
             /\ groups' = (groups \ found) \cup {Patch(g, scalars) : g \in found}
  /\ UNCHANGED <<users, nextUser, nextGroup, call, inflight>>

\* lines 542-557: groupSchema.findUnique; newMembers starts as the very array
\* selectedGroup.members (shared), not a copy of it.
MgFind(p) ==
  /\ pc[p] = "mg_find"
  /\ Issue(p, "findUnique", "group")
  /\ LET where == endpointMapper("outbound", [id |-> call[p].id], GroupMap)
         found == findMany(groups, where)
         selectedGroup == CHOOSE g \in found : TRUE
     IN IF found = {}
        THEN /\ Settle(p, Err("groupNotFound"))
             /\ loc' = loc
        ELSE /\ Goto(p, IF Len(call[p].obj.members) > 0 THEN "mg_user"
                        ELSE "mg_update")
             /\ loc' = [loc EXCEPT ![p].selected = selectedGroup.members,
                                   ![p].snapshot = selectedGroup.members,
                                   ![p].newMembers = selectedGroup.members,
                                   ![p].shared = TRUE,
                                   ![p].memberIndex = 1]
  /\ UNCHANGED <<users, groups, nextUser, nextGroup, call, inflight>>

\* memberStep without the includes() test of line 582.
memberStepAlwaysPush(st, key, operation) ==
  IF operation = "delete"
  THEN [newMembers |-> Without(st.selected, key), selected |-> st.selected,
        shared |-> FALSE]
  ELSE [newMembers |-> Append(st.newMembers, key),
        selected |-> IF st.shared THEN Append(st.selected, key) ELSE st.selected,
        shared |-> st.shared]

\* lines 577-587: one member operation on the local arrays.  st.selected is
\* selectedGroup.members, st.newMembers is newMembers, st.shared says that both
\* still name one array, so that a push shows in both.
memberStep(st, key, operation) ==
  IF operation = "delete"
  THEN [newMembers |-> Without(st.selected, key), selected |-> st.selected,
        shared |-> FALSE]
  ELSE IF key \notin Range(st.newMembers)
  THEN [newMembers |-> Append(st.newMembers, key),
        selected |-> IF st.shared THEN Append(st.selected, key) ELSE st.selected,
        shared |-> st.shared]
  ELSE st

\* memberResult that skips a member whose user does not exist instead of
\* throwing (lines 573-575).
memberResultSkipMissing(found, st, operation) ==
  IF found = {}
  THEN [error |-> "", st |-> st, key |-> ""]
  ELSE [error |-> "",
        st |-> memberStep(st, (CHOOSE u \in found : TRUE).id, operation),
        key |-> (CHOOSE u \in found : TRUE).id]

\* lines 569-587: what the findFirst result does to the call: the error thrown
\* when there is no such user, else the member operation on the user's key.
memberResult(found, st, operation) ==
  IF found = {}
  THEN [error |-> "userNotFound", st |-> st, key |-> ""]
  ELSE [error |-> "",
        st |-> memberStep(st, (CHOOSE u \in found : TRUE).id, operation),
        key |-> (CHOOSE u \in found : TRUE).id]

\* lines 558-588: one round of the loop over attrObj.members: userSchema.findFirst
\* for the member, then the member operation.
MgUser(p) ==
  /\ pc[p] = "mg_user"
  /\ Issue(p, "findFirst", "user")
  /\ LET member == call[p].obj.members[loc[p].memberIndex]
         userFilter == endpointMapper("outbound", [userName |-> member.value],
                                      UserMap)
         r == memberResult(findMany(users, userFilter),
                           [newMembers |-> loc[p].newMembers,
                            selected |-> loc[p].selected,
                            shared |-> loc[p].shared], member.operation)
         last == loc[p].memberIndex = Len(call[p].obj.members)
     IN IF r.error # ""
        THEN /\ Settle(p, Err(r.error))
             /\ loc' = loc
        ELSE /\ Goto(p, IF last THEN "mg_update" ELSE "mg_user")
             /\ loc' = [loc EXCEPT ![p].newMembers = r.st.newMembers,
                                   ![p].selected = r.st.selected,
                                   ![p].shared = r.st.shared,
                                   ![p].found = Append(@, r.key),
                                   ![p].memberIndex = @ + 1]
  /\ UNCHANGED <<users, groups, nextUser, nextGroup, call, inflight>>

\* groupPatch without the delete of line 591: an id in the request stays in
\* the patch.
groupPatchKeepId(attrObj, newMembers) ==
  LET updatedGroup == endpointMapper("outbound", attrObj, GroupMap)
  IN [f \in DOMAIN updatedGroup \cup {"members"} |->
        IF f = "members" THEN newMembers ELSE updatedGroup[f]]

\* lines 591-597: the patch of the one update: the mapped attributes without
\* id, and the member list.
groupPatch(attrObj, newMembers) ==
  LET updatedGroup == endpointMapper("outbound", attrObj, GroupMap)
  IN [f \in (DOMAIN updatedGroup \ {"id"}) \cup {"members"} |->
        IF f = "members" THEN newMembers ELSE updatedGroup[f]]

\* MgUpdate over an update that pushes the new keys onto the stored list
\* (members: { push: ... }) instead of setting the list.
MgUpdatePush(p) ==
  /\ pc[p] = "mg_update"
  /\ Issue(p, "update", "group")
  /\ LET where == endpointMapper("outbound", [id |-> call[p].id], GroupMap)
         found == findMany(groups, where)
         data == groupPatch(call[p].obj, loc[p].newMembers)
         pushed(g) == [data EXCEPT !.members =
                         g.members \o SelectSeq(data.members,
                                                LAMBDA k : k \notin Range(g.members))]
     IN /\ loc' = [loc EXCEPT ![p].data = data]
        /\ IF found = {}
              \/ \E g \in groups \ found : "name" \in DOMAIN data /\ g.name = data.name
           THEN /\ Settle(p, Err("storageError"))
                /\ groups' = groups
           ELSE /\ Settle(p, Ok(NULL))
                /\ groups' = (groups \ found) \cup {Patch(g, pushed(g)) : g \in found}
  /\ UNCHANGED <<users, nextUser, nextGroup, call, inflight>>

\* lines 591-597: groupSchema.update; the storage rejects a vanished record
\* and a name that another record holds.
MgUpdate(p) ==
  /\ pc[p] = "mg_update"
  /\ Issue(p, "update", "group")
  /\ LET where == endpointMapper("outbound", [id |-> call[p].id], GroupMap)
         found == findMany(groups, where)
         data == groupPatch(call[p].obj, loc[p].newMembers)
     IN /\ loc' = [loc EXCEPT ![p].data = data]
        /\ IF found = {}
              \/ \E g \in groups \ found : "name" \in DOMAIN data /\ g.name = data.name
           THEN /\ Settle(p, Err("storageError"))
                /\ groups' = groups
           ELSE /\ Settle(p, Ok(NULL))
                /\ groups' = (groups \ found) \cup {Patch(g, data) : g \in found}
  /\ UNCHANGED <<users, nextUser, nextGroup, call, inflight>>

\* ------------------------------------------------------------------ getUsers
\* userResource without line 132: the id stays the storage key.
userResourceStorageId(row, allGroups) ==
  LET scimUser == endpointMapper("inbound", row, UserMap)
      found == Rows(GroupIds, findManyHas(allGroups, scimUser.id))
      groupsList ==
        [i \in 1..Len(found) |->
           LET formattedGroup == endpointMapper("inbound", found[i], GroupMap)
           IN [value |-> formattedGroup.id, display |-> formattedGroup.displayName]]
  IN [f \in DOMAIN scimUser \cup {"groups"} |->
        IF f = "groups" THEN groupsList ELSE scimUser[f]]

\* userResource that looks the groups up after line 132, by the userName the
\* id was overwritten with.
userResourceByName(row, allGroups) ==
  LET scimUser == endpointMapper("inbound", row, UserMap)
      found == Rows(GroupIds, findManyHas(allGroups, scimUser.userName))
      groupsList ==
        [i \in 1..Len(found) |->
           LET formattedGroup == endpointMapper("inbound", found[i], GroupMap)
           IN [value |-> formattedGroup.id, display |-> formattedGroup.displayName]]
  IN [f \in DOMAIN scimUser \cup {"groups"} |->
        IF f = "groups" THEN groupsList
        ELSE IF f = "id" THEN scimUser.userName
        ELSE scimUser[f]]

\* lines 111-133: the resource pushed for one row
userResource(row, allGroups) ==
  LET scimUser == endpointMapper("inbound", row, UserMap)
      found == Rows(GroupIds, findManyHas(allGroups, scimUser.id))
      groupsList ==
        [i \in 1..Len(found) |->
           LET formattedGroup == endpointMapper("inbound", found[i], GroupMap)
           IN [value |-> formattedGroup.id, display |-> formattedGroup.displayName]]
  IN [f \in DOMAIN scimUser \cup {"groups"} |->
        IF f = "groups" THEN groupsList
        ELSE IF f = "id" THEN scimUser.userName
        ELSE scimUser[f]]

\* lines 101-105, 139: what the call resolves to
Ret(Resources) == [Resources |-> Resources, totalResults |-> NULL]

\* line 108: userSchema.findMany({ where: filter })
GuRows(p) ==
  /\ pc[p] = "gu_rows"
  /\ Issue(p, "findMany", "user")
  /\ LET rows == Rows(UserIds, findMany(users, loc[p].filter))
     IN /\ loc' = [loc EXCEPT ![p].rows = rows, ![p].row = 1]
        /\ IF rows = <<>> THEN Settle(p, Ok(Ret(<<>>))) ELSE Goto(p, "gu_groups")
  /\ UNCHANGED <<users, groups, nextUser, nextGroup, call, inflight>>

\* lines 110-134: one round of the loop over rows: groupSchema.findMany for the
\* row's groups, then the push.
GuGroups(p) ==
  /\ pc[p] = "gu_groups"
  /\ Issue(p, "findMany", "group")
  /\ LET Resources == Append(loc[p].Resources,
                             userResource(loc[p].rows[loc[p].row], groups))
     IN /\ loc' = [loc EXCEPT ![p].Resources = Resources, ![p].row = @ + 1]
        /\ IF loc[p].row = Len(loc[p].rows)
           THEN Settle(p, Ok(Ret(Resources)))
           ELSE Goto(p, "gu_groups")
  /\ UNCHANGED <<users, groups, nextUser, nextGroup, call, inflight>>

\* ----------------------------------------------------------------- getGroups
\* groupMembers that trusts the stored list instead of looking the users up.
groupMembersStored(allUsers, keys) ==
  [i \in 1..Len(keys) |->
     [value |-> keys[i],
      display |-> IF \E u \in allUsers : u.id = keys[i]
                  THEN (CHOOSE u \in allUsers : u.id = keys[i]).login
                  ELSE ""]]

\* groupMembers over findFirst instead of findMany: only the first user found
\* is listed.
groupMembersFindFirst(allUsers, keys) ==
  LET found == Rows(UserIds, findManyIn(allUsers, keys))
  IN [i \in 1..(IF found = <<>> THEN 0 ELSE 1) |->
        LET formattedUser == endpointMapper("inbound", found[i], UserMap)
        IN [value |-> formattedUser.id, display |-> formattedUser.userName]]

\* lines 386-401: the members list derived for one stored member list
groupMembers(allUsers, keys) ==
  LET found == Rows(UserIds, findManyIn(allUsers, keys))
  IN [i \in 1..Len(found) |->
        LET formattedUser == endpointMapper("inbound", found[i], UserMap)
        IN [value |-> formattedUser.id, display |-> formattedUser.userName]]

\* lines 382-406: the resource pushed for one row
groupResource(row, allUsers) ==
  LET scimGroup == endpointMapper("inbound", row, GroupMap)
      members == groupMembers(allUsers, row.members)
  IN [f \in DOMAIN scimGroup \cup {"members"} |->
        IF f = "members" THEN members ELSE scimGroup[f]]

\* line 379: groupSchema.findMany({ where: filter })
GgRows(p) ==
  /\ pc[p] = "gg_rows"
  /\ Issue(p, "findMany", "group")
  /\ LET rows == Rows(GroupIds, findMany(groups, loc[p].filter))
     IN /\ loc' = [loc EXCEPT ![p].rows = rows, ![p].row = 1]
        /\ IF rows = <<>> THEN Settle(p, Ok(Ret(<<>>))) ELSE Goto(p, "gg_users")
  /\ UNCHANGED <<users, groups, nextUser, nextGroup, call, inflight>>

\* GgUsers that repairs what it reads: the keys of the row that resolve to
\* no user are taken out of the stored members list.
GgUsersPrune(p) ==
  /\ pc[p] = "gg_users"
  /\ Issue(p, "findMany", "user")
  /\ LET row == loc[p].rows[loc[p].row]
         Resources == Append(loc[p].Resources, groupResource(row, users))
         live == {u.id : u \in users}
     IN /\ loc' = [loc EXCEPT ![p].Resources = Resources, ![p].row = @ + 1]
        /\ groups' = {IF g.id = row.id
                      THEN Patch(g, [members |->
                                       SelectSeq(g.members,
                                                 LAMBDA k : k \in live)])
                      ELSE g : g \in groups}
        /\ IF loc[p].row = Len(loc[p].rows)
           THEN Settle(p, Ok(Ret(Resources)))
           ELSE Goto(p, "gg_users")
  /\ UNCHANGED <<users, nextUser, nextGroup, call, inflight>>

\* lines 381-407: one round of the loop over rows: userSchema.findMany for the
\* row's members, then the push.
GgUsers(p) ==
  /\ pc[p] = "gg_users"
  /\ Issue(p, "findMany", "user")
  /\ LET Resources == Append(loc[p].Resources,
                             groupResource(loc[p].rows[loc[p].row], users))
     IN /\ loc' = [loc EXCEPT ![p].Resources = Resources, ![p].row = @ + 1]
        /\ IF loc[p].row = Len(loc[p].rows)
           THEN Settle(p, Ok(Ret(Resources)))
           ELSE Goto(p, "gg_users")
  /\ UNCHANGED <<users, groups, nextUser, nextGroup, call, inflight>>

\* ------------------------------------------------------------ storage faults
\* The storage call a method has outstanding at each label.
CallAt(label) ==
  CASE label = "cu_create" -> [fn |-> "create", on |-> "user"]
    [] label = "cg_create" -> [fn |-> "create", on |-> "group"]
    [] label = "du_find" -> [fn |-> "findUnique", on |-> "user"]
    [] label = "du_groups" -> [fn |-> "findMany", on |-> "group"]
    [] label = "du_delete" -> [fn |-> "delete", on |-> "user"]
    [] label = "mu_find" -> [fn |-> "findUnique", on |-> "user"]
    [] label = "mu_update" -> [fn |-> "update", on |-> "user"]
    [] label = "dg_find" -> [fn |-> "findUnique", on |-> "group"]
    [] label = "dg_delete" -> [fn |-> "delete", on |-> "group"]
    [] label = "mg_find" -> [fn |-> "findUnique", on |-> "group"]
    [] label = "mg_user" -> [fn |-> "findFirst", on |-> "user"]
    [] label = "mg_update" -> [fn |-> "update", on |-> "group"]
    [] label = "gu_rows" -> [fn |-> "findMany", on |-> "user"]
    [] label = "gu_groups" -> [fn |-> "findMany", on |-> "group"]
    [] label = "gg_rows" -> [fn |-> "findMany", on |-> "group"]
    [] label = "gg_users" -> [fn |-> "findMany", on |-> "user"]

\* StorageFail with a retry: the failed call is issued again instead of the
\* call being rejected.
StorageFailRetry(p) ==
  /\ pc[p] \in {"cu_create", "cg_create", "du_delete", "mu_update", "dg_delete",
               "mg_update"}
  /\ Issue(p, CallAt(pc[p]).fn, CallAt(pc[p]).on)
  /\ UNCHANGED <<users, groups, nextUser, nextGroup, pc, call, loc, res, inflight>>

\* The awaited write of a method fails in the storage: main() rejects, the
\* catch handler rejects the call.  The create calls wrap the error (lines
\* 173-180, 447-454).  A failing read ends the call on the same path.
StorageFail(p) ==
  /\ pc[p] \in {"cu_create", "cg_create", "du_delete", "mu_update", "dg_delete",
               "mg_update"}
  /\ Issue(p, CallAt(pc[p]).fn, CallAt(pc[p]).on)
  /\ Settle(p, Err(IF pc[p] \in {"cu_create", "cg_create"} THEN "errorAtField"
                   ELSE "storageError"))
  /\ loc' = [loc EXCEPT ![p] = NoLoc]
  /\ UNCHANGED <<users, groups, nextUser, nextGroup, call, inflight>>

\* ------------------------------------------------------------ specifications
Step(p) ==
  \/ CreateUser(p)
  \/ CreateGroup(p)
  \/ DuFind(p)
  \/ DuGroups(p)
  \/ DuDelete(p)
  \/ MuFind(p)
  \/ MuUpdate(p)
  \/ DgFind(p)
  \/ DgDelete(p)
  \/ MgFind(p)
  \/ MgUser(p)
  \/ MgUpdate(p)
  \/ GuRows(p)
  \/ GuGroups(p)
  \/ GgRows(p)
  \/ GgUsers(p)
  \/ StorageFail(p)
  \/ Disconnect(p)
  \/ Return(p)

Quiet == \A p \in Procs : pc[p] = "idle"

\* The calls of the sequential specification: one group name, so that at most
\* one group exists at a time, and every member list.
SeqCalls ==
  {c \in Calls :
     /\ c.op \in {"createGroup", "modifyGroup"} /\ "displayName" \in DOMAIN c.obj
          => c.obj.displayName = "dev"
     /\ "id" \notin DOMAIN c.obj}

\* One method call at a time; the cleanup updates deleteUser dispatched settle
\* on their own, during that call or any later one.
Next ==
  \/ \E c \in SeqCalls : Quiet /\ Start(1, c)
  \/ \E p \in Procs : Step(p)
  \/ \E m \in inflight : CleanupApplied(m)
  \/ \E m \in inflight : CleanupRejected(m)

Spec == Init /\ [][Next]_vars

\* Every storage call completes or fails: a call that has a step to take
\* takes it.  The dispatched cleanup updates are under no such assumption.
SpecLive == Init /\ [][Next]_vars /\ \A p \in Procs : WF_vars(Step(p))

\* Overlapping calls: the gateway serves requests concurrently, so a second
\* method may run between two storage calls of the first.  The calls are the
\* writers on one user and one group.
OverlapCalls ==
  {c \in SeqCalls :
     \/ c.op = "createUser" /\ c.obj.userName = "ann"
     \/ c.op = "deleteUser" /\ c.id = "ann"
     \/ c.op \in {"createGroup", "deleteGroup"}
     \/ /\ c.op = "modifyGroup"
        /\ c.obj = [members |-> <<[value |-> "ann", operation |-> "add"]>>]}

OverlapStep(p) ==
  \/ CreateUser(p)
  \/ CreateGroup(p)
  \/ DuFind(p)
  \/ DuGroups(p)
  \/ DuDelete(p)
  \/ DgFind(p)
  \/ DgDelete(p)
  \/ MgFind(p)
  \/ MgUser(p)
  \/ MgUpdate(p)
  \/ StorageFail(p)
  \/ Disconnect(p)

NextOverlap ==
  \/ \E p \in Procs, c \in OverlapCalls : Start(p, c)
  \/ \E p \in Procs : OverlapStep(p)
  \/ \E m \in inflight : CleanupApplied(m)
  \/ \E m \in inflight : CleanupRejected(m)

SpecOverlap == Init /\ [][NextOverlap]_vars

\* Overlapping modifyGroup calls on the one group, over users and a group
\* that are created and never deleted.  Each call carries at most one member
\* operation.
ModifyCalls ==
  {c \in SeqCalls :
     \/ c.op \in {"createUser", "createGroup"}
     \/ c.op = "modifyGroup" /\ Len(c.obj.members) <= 1}

ModifyStep(p) ==
  \/ CreateUser(p)
  \/ CreateGroup(p)
  \/ MgFind(p)
  \/ MgUser(p)
  \/ MgUpdate(p)
  \/ StorageFail(p)
  \/ Disconnect(p)

NextModify ==
  \/ \E p \in Procs, c \in ModifyCalls : Start(p, c)
  \/ \E p \in Procs : ModifyStep(p)

SpecModify == Init /\ [][NextModify]_vars

\* One call at a time, of modifyGroup requests that carry an id, a display
\* name and at most one member operation, over one user and the one group.
PatchCalls ==
  {c \in Calls :
     \/ c.op = "createUser" /\ c.obj.userName = "ann"
     \/ c.op = "createGroup" /\ c.obj.displayName = "dev"
     \/ c.op = "modifyGroup" /\ "id" \in DOMAIN c.obj}

PatchStep(p) ==
  \/ CreateUser(p)
  \/ CreateGroup(p)
  \/ MgFind(p)
  \/ MgUser(p)
  \/ MgUpdate(p)
  \/ StorageFail(p)
  \/ Disconnect(p)

NextPatch ==
  \/ \E c \in PatchCalls : Quiet /\ Start(1, c)
  \/ \E p \in Procs : PatchStep(p)

SpecPatch == Init /\ [][NextPatch]_vars

\* The plugin started against a storage that already holds records: user ann
\* and, besides the group g1 that the calls address, a second group g2 with or
\* without ann as a member.  One call at a time.
InitTwoGroups ==
  /\ users = {[id |-> UserIds[1], login |-> "ann"]}
  /\ \E m1, m2 \in {<<>>, <<UserIds[1]>>} :
       groups = {[id |-> GroupIds[1], name |-> "dev", members |-> m1],
                 [id |-> "g2", name |-> "ops", members |-> m2]}
  /\ nextUser = 1
  /\ nextGroup = Len(GroupIds)
  /\ pc = [p \in Procs |-> "idle"]
  /\ call = [p \in Procs |-> NoCall]
  /\ loc = [p \in Procs |-> NoLoc]
  /\ res = [p \in Procs |-> NoRes]
  /\ log = [p \in Procs |-> Empty]
  /\ inflight = {}

TwoGroupCalls ==
  {c \in SeqCalls :
     \/ c.op \in {"createUser", "modifyUser", "deleteGroup"}
     \/ c.op = "modifyGroup" /\ Len(c.obj.members) <= 1}

TwoGroupStep(p) ==
  \/ CreateUser(p)
  \/ MuFind(p)
  \/ MuUpdate(p)
  \/ DgFind(p)
  \/ DgDelete(p)
  \/ MgFind(p)
  \/ MgUser(p)
  \/ MgUpdate(p)
  \/ StorageFail(p)
  \/ Disconnect(p)

NextTwoGroups ==
  \/ \E c \in TwoGroupCalls : Quiet /\ Start(1, c)
  \/ \E p \in Procs : TwoGroupStep(p)

SpecTwoGroups == InitTwoGroups /\ [][NextTwoGroups]_vars

\* -------------------------------------------------------------------- claims
Succeeded(p, op) == call[p].op = op /\ res[p].status = "ok"

Failed(p, op, error) ==
  call[p].op = op /\ res[p].status = "error" /\ res[p].error = error

Writes(p) ==
  {i \in 1..Len(log[p]) : log[p][i].fn \in {"create", "update", "delete"}}

NoDuplicates(s) == \A i, j \in 1..Len(s) : s[i] = s[j] => i = j

Dangling == {k \in UNION {Range(g.members) : g \in groups} :
               \A u \in users : u.id # k}

\* The member operations applied in order to a member list: add inserts the
\* key if absent, delete removes it if present.
RECURSIVE ApplyInOrder(_, _, _)
ApplyInOrder(members, keys, ops) ==
  IF keys = <<>> \/ ops = <<>> THEN members
  ELSE ApplyInOrder(
         IF Head(ops).operation = "delete" THEN Without(members, Head(keys))
         ELSE IF Head(keys) \in Range(members) THEN members
         ELSE Append(members, Head(keys)),
         Tail(keys), Tail(ops))

\* C1: in the state in which deleteUser(u) has resolved successfully, every
\* cleanup update it dispatched has completed and no group's stored members
\* list contains u's storage key.
C1_CleanupDoneAtResolve ==
  \A p \in Procs :
    Succeeded(p, "deleteUser") =>
      /\ \A m \in inflight : m.user # loc[p].user.id
      /\ \A g \in groups : loc[p].user.id \notin Range(g.members)

\* C2: a deleteUser(u) one of whose cleanup updates was rejected does not
\* report success.
C2_CleanupFailureFailsDelete ==
  \A p \in Procs :
    (call[p].op = "deleteUser" /\ loc[p].rejected) => res[p].status # "ok"

\* C3: a getGroups call started after users were deleted returns no members
\* entry for any of them, whether or not the stored members lists still hold
\* their keys.
C3_DeletedUserNotListed ==
  \A p \in Procs :
    Succeeded(p, "getGroups") =>
      \A i \in 1..Len(res[p].value.Resources) :
        \A j \in 1..Len(res[p].value.Resources[i].members) :
          res[p].value.Resources[i].members[j].value \notin loc[p].gone

\* C3 witness: getGroups has returned a group whose stored members list still
\* holds the key of a user deleted before the call.
C3_Witness ==
  \E p \in Procs :
    /\ Succeeded(p, "getGroups")
    /\ \E i \in 1..Len(res[p].value.Resources) :
         \E g \in groups :
           /\ g.id = res[p].value.Resources[i].id
           /\ Range(g.members) \cap loc[p].gone # {}
           /\ Len(res[p].value.Resources[i].members) < Len(g.members)

\* C4: whenever no call is running and no dispatched update is outstanding,
\* every key in every group's stored members list is the key of an existing
\* user record.
C4_NoDanglingWhenQuiet == (Quiet /\ inflight = {}) => Dangling = {}

\* C5: the member list a successful modifyGroup writes is the snapshot read at
\* the start of the call with all the member operations applied in order.
C5_WrittenIsOpsInOrder ==
  \A p \in Procs :
    Succeeded(p, "modifyGroup") =>
      Range(loc[p].data.members) =
        Range(ApplyInOrder(loc[p].snapshot, loc[p].found, call[p].obj.members))

\* C6: a modifyGroup call with a member operation that references a user that
\* does not exist does not succeed, and it has issued no storage write when it
\* fails, whatever valid member operations came first.
C6_NoPartialApplication ==
  \A p \in Procs :
    call[p].op = "modifyGroup" =>
      /\ Failed(p, "modifyGroup", "userNotFound") => Writes(p) = {}
      /\ (pc[p] = "mg_update" \/ res[p].status = "ok") =>
           \A i \in 1..Len(call[p].obj.members) :
             \E u \in users : u.login = call[p].obj.members[i].value

\* C6 witness: modifyGroup failed on a missing user after a valid member
\* operation had changed its local member list; the stored list is the one
\* read at the start.
C6_Witness ==
  \E p \in Procs :
    /\ Failed(p, "modifyGroup", "userNotFound")
    /\ loc[p].memberIndex > 1
    /\ loc[p].newMembers # loc[p].snapshot
    /\ \E g \in groups : g.id = call[p].id /\ g.members = loc[p].snapshot

\* C7: a successful modifyGroup that only adds writes the snapshot followed by
\* the keys that were not members yet, each once; when every added user was a
\* member already the written list is the snapshot, and no stored members list
\* ever holds a key twice.
C7_AddIdempotent ==
  /\ \A g \in groups : NoDuplicates(g.members)
  /\ \A p \in Procs :
       ( /\ Succeeded(p, "modifyGroup")
         /\ \A i \in 1..Len(call[p].obj.members) :
              call[p].obj.members[i].operation = "add" ) =>
         /\ NoDuplicates(loc[p].data.members)
         /\ loc[p].data.members =
              ApplyInOrder(loc[p].snapshot, loc[p].found, call[p].obj.members)
         /\ Range(loc[p].found) \subseteq Range(loc[p].snapshot) =>
              loc[p].data.members = loc[p].snapshot

\* C7 witness: modifyGroup succeeded with the same add twice for a user who was
\* a member already, and wrote the unchanged list.
C7_Witness ==
  \E p \in Procs :
    /\ Succeeded(p, "modifyGroup")
    /\ Len(call[p].obj.members) = 2
    /\ call[p].obj.members[1] = call[p].obj.members[2]
    /\ call[p].obj.members[1].operation = "add"
    /\ loc[p].found[1] \in Range(loc[p].snapshot)
    /\ loc[p].data.members = loc[p].snapshot
    /\ \E g \in groups : g.id = call[p].id /\ g.members = loc[p].snapshot

\* C8: getUsers and getGroups with an empty predicate return one resource for
\* every stored record, and totalResults is the number of returned resources.
C8_ListAllWithCount ==
  \A p \in Procs :
    ( /\ call[p].op \in {"getUsers", "getGroups"}
      /\ call[p].getObj = Pred("", "", "", "")
      /\ res[p].status = "ok" ) =>
      /\ Len(res[p].value.Resources) =
           Cardinality(IF call[p].op = "getUsers" THEN users ELSE groups)
      /\ res[p].value.totalResults # NULL
      /\ res[p].value.totalResults = Len(res[p].value.Resources)

\* C9: getUsers with the predicate userName eq V returns no resource or one,
\* and the one it returns has userName V.
C9_UniqueLookup ==
  \A p \in Procs :
    ( /\ Succeeded(p, "getUsers")
      /\ call[p].getObj.operator = "eq"
      /\ call[p].getObj.attribute = "userName" ) =>
      /\ Len(res[p].value.Resources) <= 1
      /\ \A i \in 1..Len(res[p].value.Resources) :
           res[p].value.Resources[i].userName = call[p].getObj.value

\* C9 witness: the lookup returned its one user while another user is stored.
C9_Witness ==
  \E p \in Procs :
    /\ Succeeded(p, "getUsers")
    /\ call[p].getObj.operator = "eq"
    /\ call[p].getObj.attribute = "userName"
    /\ Len(res[p].value.Resources) = 1
    /\ Cardinality(users) = 2

\* C10: getUsers and getGroups with rawFilter set settle with an
\* unsupported-filter error and no resources, whatever else the predicate holds.
C10_RawFilterRejected ==
  \A p \in Procs :
    ( /\ call[p].op \in {"getUsers", "getGroups"}
      /\ call[p].getObj.rawFilter # ""
      /\ res[p].status # "pending" ) =>
      /\ res[p].status = "error"
      /\ res[p].error \in {"advancedFiltering", "simpelFiltering",
                           "groupsMemberOfUser"}

\* The operator predicates of getUsers that are no unique lookup.
UnsupportedUserPred(getObj) ==
  /\ getObj.operator # ""
  /\ ~(getObj.operator = "eq"
         /\ getObj.attribute \in {"id", "userName", "externalId"})

\* C11: a getUsers call whose predicate has an operator and is not eq on id,
\* userName or externalId is rejected with an unsupported-filter error, and it
\* has issued no storage call.
C11_UnsupportedUserFilter ==
  \A p \in Procs :
    (call[p].op = "getUsers" /\ UnsupportedUserPred(call[p].getObj)) =>
      /\ res[p].status = "error"
      /\ res[p].error \in {"simpelFiltering", "groupsMemberOfUser"}
      /\ log[p] = <<>>
      /\ pc[p] = "done"

\* C11 witness: getUsers was rejected for an operator other than eq while a
\* user that the predicate would match is stored.
C11_Witness ==
  \E p \in Procs :
    /\ Failed(p, "getUsers", "simpelFiltering")
    /\ call[p].getObj.operator \in {"co", "sw"}
    /\ \E u \in users : u.login = call[p].getObj.value
    /\ log[p] = <<>>

\* The operator predicates of getGroups outside the four supported ones.
UnsupportedGroupPred(getObj) ==
  /\ getObj.operator # ""
  /\ ~(getObj.operator = "eq"
         /\ getObj.attribute \in {"id", "displayName", "externalId",
                                  "members.value"})

\* C12: a getGroups call whose predicate has an operator and is not eq on id,
\* displayName, externalId or members.value never returns a result set: once
\* settled, it has been rejected with an unsupported-filter error.
C12_UnsupportedGroupFilter ==
  \A p \in Procs :
    ( /\ call[p].op = "getGroups"
      /\ UnsupportedGroupPred(call[p].getObj)
      /\ res[p].status # "pending" ) =>
      /\ res[p].status = "error"
      /\ res[p].error \in {"simpelFiltering", "advancedFiltering"}

\* C13: a getGroups call with the predicate members.value eq M is not rejected
\* for its filter, and every group it returns lists M among its members.
C13_MemberOfLookup ==
  \A p \in Procs :
    ( /\ call[p].op = "getGroups"
      /\ call[p].getObj.operator = "eq"
      /\ call[p].getObj.attribute = "members.value"
      /\ res[p].status # "pending" ) =>
      /\ res[p].status = "ok"
      /\ \A i \in 1..Len(res[p].value.Resources) :
           \E j \in 1..Len(res[p].value.Resources[i].members) :
             call[p].getObj.value \in
               {res[p].value.Resources[i].members[j].value,
                res[p].value.Resources[i].members[j].display}

\* C14: a successful unique lookup eq on attribute A with value V returns only
\* resources whose attribute A is V.
C14_LookupByAttribute ==
  \A p \in Procs :
    ( /\ call[p].op \in {"getUsers", "getGroups"}
      /\ call[p].getObj.operator = "eq"
      /\ call[p].getObj.attribute \in {"id", "userName", "displayName"}
      /\ res[p].status = "ok" ) =>
      \A i \in 1..Len(res[p].value.Resources) :
        res[p].value.Resources[i][call[p].getObj.attribute] = call[p].getObj.value

\* C15: a createUser call whose userName an existing user holds is rejected
\* with the duplicate-key error by its create call, and that step leaves the
\* set of stored user records as it was.
C15_DuplicateUserRejected ==
  [][\A p \in Procs :
       (CreateUser(p) /\ \E u \in users : u.login = call[p].obj.userName) =>
         /\ users' = users
         /\ res'[p] = Err("duplicateKey")]_vars

\* C15 witness: createUser has failed with the duplicate-key error, and the
\* one user with that name is the one stored before.
C15_Witness ==
  \E p \in Procs :
    /\ Failed(p, "createUser", "duplicateKey")
    /\ Cardinality({u \in users : u.login = call[p].obj.userName}) = 1
    /\ nextUser = Cardinality(users)

\* C16: a successful createUser or createGroup resolves to the canonical id of
\* the entity it created: the userName of the user, the id of the group.
C16_CreateReturnsId ==
  \A p \in Procs :
    /\ Succeeded(p, "createUser") =>
         /\ res[p].value.id = call[p].obj.userName
         /\ \E u \in users : u.login = res[p].value.id
    /\ Succeeded(p, "createGroup") =>
         /\ res[p].value # NULL
         /\ \E g \in groups : g.id = res[p].value

\* C17: when the lookup of modifyUser or modifyGroup finds no record for the
\* id, that step rejects the call with the not-found error, the call has
\* issued no write and goes on to none, and no stored record changes.
C17_ModifyMissingFails ==
  [][\A p \in Procs :
       ( \/ /\ MuFind(p)
            /\ findMany(users, endpointMapper("outbound",
                           [userName |-> call[p].id], UserMap)) = {}
         \/ /\ MgFind(p)
            /\ findMany(groups, endpointMapper("outbound",
                            [id |-> call[p].id], GroupMap)) = {} ) =>
         /\ res'[p] = Err(IF call[p].op = "modifyUser" THEN "userNotFound"
                          ELSE "groupNotFound")
         /\ pc'[p] = "finally"
         /\ \A i \in 1..Len(log'[p]) :
              log'[p][i].fn \notin {"create", "update", "delete"}
         /\ UNCHANGED <<users, groups, inflight>>]_vars

\* C17 witness: modifyUser has failed with the not-found error after its
\* lookup alone, while another user is stored.
C17_Witness ==
  \E p \in Procs :
    /\ Failed(p, "modifyUser", "userNotFound")
    /\ users # {}
    /\ Len(log[p]) = 1
    /\ Writes(p) = {}

\* C19: every user resource getUsers returns has its id equal to its userName.
C19_IdIsUserName ==
  \A p \in Procs :
    (call[p].op = "getUsers" /\ pc[p] \in {"gu_groups", "finally"}) =>
      /\ \A i \in 1..Len(loc[p].Resources) :
           loc[p].Resources[i].id = loc[p].Resources[i].userName
      /\ res[p].status = "ok" =>
           \A i \in 1..Len(res[p].value.Resources) :
             res[p].value.Resources[i].id = res[p].value.Resources[i].userName

\* C19 witness: getUsers has returned two users, each under its userName and
\* not under its storage key.
C19_Witness ==
  \E p \in Procs :
    /\ Succeeded(p, "getUsers")
    /\ Len(res[p].value.Resources) = 2
    /\ \A i \in 1..2 :
         \E u \in users : /\ u.login = res[p].value.Resources[i].userName
                          /\ u.id # res[p].value.Resources[i].id

\* C20: in every group getGroups returns, the value of a members entry is the
\* userName of the listed user, so that modifyGroup's lookup of a member by
\* that value finds the same user.
C20_MemberValueIsUserId ==
  \A p \in Procs :
    Succeeded(p, "getGroups") =>
      \A i \in 1..Len(res[p].value.Resources) :
        \A j \in 1..Len(res[p].value.Resources[i].members) :
          LET entry == res[p].value.Resources[i].members[j]
              userFilter == endpointMapper("outbound",
                                           [userName |-> entry.value], UserMap)
          IN /\ entry.value = entry.display
             /\ \E u \in findMany(users, userFilter) : u.login = entry.display

\* The record a delete call names is not stored.
NoUserFor(p) ==
  findMany(users, endpointMapper("outbound", [userName |-> call[p].id],
                                 UserMap)) = {}

NoGroupFor(p) ==
  findMany(groups, endpointMapper("outbound", [id |-> call[p].id], GroupMap)) = {}

Deletes(l) == {i \in 1..Len(l) : l[i].fn = "delete"}

\* C18: when the lookup of deleteUser or deleteGroup finds no record, that
\* step rejects the call with the not-found error, with no write issued and
\* no record changed; when the record is gone by the time of the storage
\* delete, that step rejects the call with the not-found error, the delete
\* was issued once and the call goes on to nothing but its disconnect.
C18_DeleteMissingFails ==
  [][\A p \in Procs :
       /\ ((DuFind(p) /\ NoUserFor(p)) \/ (DgFind(p) /\ NoGroupFor(p))) =>
            /\ res'[p] = Err(IF call[p].op = "deleteUser" THEN "userNotFound"
                             ELSE "groupNotFound")
            /\ pc'[p] = "finally"
            /\ \A i \in 1..Len(log'[p]) :
                 log'[p][i].fn \notin {"create", "update", "delete"}
            /\ UNCHANGED <<users, groups, inflight>>
       /\ ((DuDelete(p) /\ NoUserFor(p)) \/ (DgDelete(p) /\ NoGroupFor(p))) =>
            /\ res'[p] = Err(IF call[p].op = "deleteUser" THEN "userNotFound"
                             ELSE "groupNotFound")
            /\ pc'[p] = "finally"
            /\ Cardinality(Deletes(log'[p])) = 1
            /\ UNCHANGED <<users, groups>>]_vars

\* C18 witness: deleteUser found its user, another call deleted the user, and
\* the storage delete of the first call was rejected as not found.
C18_Witness ==
  \E p \in Procs :
    /\ Failed(p, "deleteUser", "userNotFound")
    /\ Len(log[p]) = 3
    /\ Deletes(log[p]) = {3}
    /\ loc[p].user # Empty
    /\ loc[p].user \notin users

\* The stored member keys of a row that are keys of stored users.
LiveKeys(row) == {k \in Range(row.members) : \E u \in users : u.id = k}

\* C21: a getGroups call is never rejected for a dangling key, and in every
\* group it returns the members list has one entry for each stored member key
\* of the row that is the key of a stored user, and no other entry.
C21_MembersAreLiveKeys ==
  \A p \in Procs :
    call[p].op = "getGroups" =>
      /\ res[p].status # "error"
      /\ res[p].status = "ok" =>
           \A i \in 1..Len(res[p].value.Resources) :
             LET members == res[p].value.Resources[i].members
             IN /\ {members[j].value : j \in 1..Len(members)} =
                     LiveKeys(loc[p].rows[i])
                /\ Len(members) = Cardinality(LiveKeys(loc[p].rows[i]))

\* C21 witness: getGroups has returned a group that stores two keys, one of a
\* stored user and one of a user that is gone, with the one members entry.
C21_Witness ==
  \E p \in Procs :
    /\ Succeeded(p, "getGroups")
    /\ Len(res[p].value.Resources) = 1
    /\ Len(loc[p].rows[1].members) = 2
    /\ Cardinality(LiveKeys(loc[p].rows[1])) = 1
    /\ Len(res[p].value.Resources[1].members) = 1

\* C22: the resource a round of the getUsers loop pushes lists, once each,
\* the groups whose stored members list holds the storage key of the row at
\* that read, and no other group.
C22_GroupsOfUser ==
  [][\A p \in Procs :
       GuGroups(p) =>
         LET row == loc[p].rows[loc[p].row]
             pushed == loc'[p].Resources[Len(loc'[p].Resources)]
         IN /\ Len(loc'[p].Resources) = Len(loc[p].Resources) + 1
            /\ pushed.userName = row.login
            /\ {pushed.groups[j].value : j \in 1..Len(pushed.groups)} =
                 {g.id : g \in {h \in groups : row.id \in Range(h.members)}}
            /\ Len(pushed.groups) =
                 Cardinality({h \in groups : row.id \in Range(h.members)})]_vars

\* C22 witness: getUsers has returned two users, one listed with the group
\* that stores its key and one with no group.
C22_Witness ==
  \E p \in Procs :
    /\ Succeeded(p, "getUsers")
    /\ Len(res[p].value.Resources) = 2
    /\ \E i, j \in 1..2 :
         /\ Len(res[p].value.Resources[i].groups) = 1
         /\ res[p].value.Resources[j].groups = <<>>
         /\ \E g \in groups, u \in users :
              /\ u.login = res[p].value.Resources[i].userName
              /\ g.id = res[p].value.Resources[i].groups[1].value
              /\ u.id \in Range(g.members)

\* The call of p is inside main(): it has a storage call outstanding.
InMain(p) == pc[p] \notin {"idle", "done", "finally"}

\* C23: a call that entered main() leaves it only into the finally handler,
\* with its result settled; the handler's disconnect is the one step that ends
\* the call; and every storage call of the call, the updates deleteUser
\* dispatches included, is issued by a step inside main(), none at or after
\* the disconnect.
C23_DisconnectOnce ==
  [][\A p \in Procs :
       /\ InMain(p) =>
            /\ pc'[p] \notin {"idle", "done"}
            /\ pc'[p] = "finally" <=> res'[p].status # "pending"
       /\ pc[p] = "finally" =>
            /\ pc'[p] \in {"finally", "idle"}
            /\ pc'[p] = "idle" <=> Disconnect(p)
            /\ log'[p] \in {log[p], Empty}
       /\ log'[p] \notin {log[p], Empty} => InMain(p)
       /\ inflight' \ inflight # {} => \E q \in Procs : InMain(q) /\ DuGroups(q)]_vars

\* C23 witness: a call has failed at its write and is in the finally handler,
\* its disconnect still to come.
C23_Witness ==
  \E p \in Procs :
    /\ pc[p] = "finally"
    /\ res[p].status = "error"
    /\ Writes(p) # {}
    /\ ENABLED Disconnect(p)

\* The storage calls of the call of p that have been issued and have not
\* completed: the one main() awaits, and the updates it dispatched.
Outstanding(p) ==
  (IF InMain(p) THEN 1 ELSE 0)
    + Cardinality({m \in inflight : /\ call[p].op = "deleteUser"
                                    /\ loc[p].user # Empty
                                    /\ m.user = loc[p].user.id})

\* C24: at every point of a call at most one of its storage calls is
\* outstanding.
C24_OneCallOutstanding == \A p \in Procs : Outstanding(p) <= 1

\* C25: with modifyGroup calls overlapping on a group, every change of the
\* group's stored members list is the update of one call setting the whole
\* list to the list that call computed; so the stored list is always the one
\* written by the update that executed last.
C25_LastWriterWins ==
  [][\A g \in groups : \A h \in groups' :
       (h.id = g.id /\ h.members # g.members) =>
         \E p \in Procs : /\ MgUpdate(p)
                          /\ call[p].id = g.id
                          /\ h.members = loc'[p].data.members]_vars

\* C25 witness: two modifyGroup calls that read the same empty list have both
\* succeeded, one writing ann and one bob; the stored list is one of the two
\* written lists and not the two keys together.
C25_Witness ==
  /\ \A p \in Procs : Succeeded(p, "modifyGroup") /\ loc[p].snapshot = <<>>
  /\ Len(loc[1].data.members) = 1
  /\ Len(loc[2].data.members) = 1
  /\ loc[1].data.members # loc[2].data.members
  /\ \E g \in groups : /\ g.id = call[1].id
                        /\ g.id = call[2].id
                        /\ g.members \in {loc[1].data.members, loc[2].data.members}

\* C26: every call of a plugin method that is waiting for its result
\* eventually has it, resolved or rejected.
C26_EveryCallSettles ==
  \A p \in Procs :
    (pc[p] # "idle" /\ res[p].status = "pending") ~> (res[p].status # "pending")

\* C26 witness: deleteUser has resolved while an update it dispatched is
\* still outstanding: it did not wait for it.
C26_Witness ==
  \E p \in Procs :
    /\ Succeeded(p, "deleteUser")
    /\ \E m \in inflight : m.user = loc[p].user.id

\* The user a member operation names, as modifyGroup looks it up.
MemberUsers(member) ==
  findMany(users, endpointMapper("outbound", [userName |-> member.value], UserMap))

\* C27: a delete member operation of modifyGroup for a stored user whose key
\* is not in the member list the call holds at that point is no error and
\* leaves that list as it is.
C27_DeleteAbsentIsNoOp ==
  [][\A p \in Procs :
       ( /\ MgUser(p)
         /\ call[p].obj.members[loc[p].memberIndex].operation = "delete"
         /\ \E u \in MemberUsers(call[p].obj.members[loc[p].memberIndex]) :
              u.id \notin Range(loc[p].newMembers) ) =>
         /\ res'[p].status # "error"
         /\ loc'[p].newMembers = loc[p].newMembers]_vars

\* C28: the update of modifyUser changes, in the one record the id names, the
\* fields the outbound mapping yields from the attributes of the call, to the
\* mapped values; every other field of that record and every other user
\* record stay as they were.
C28_ModifyUserFrame ==
  [][\A p \in Procs :
       MuUpdate(p) =>
         LET data == endpointMapper("outbound", call[p].obj, UserMap)
         IN /\ Cardinality(users') = Cardinality(users)
            /\ \A u \in users :
                 IF u.login = call[p].id /\ res'[p].status = "ok"
                 THEN \E v \in users' :
                        /\ v.id = u.id
                        /\ DOMAIN v = DOMAIN u
                        /\ \A f \in DOMAIN u :
                             v[f] = IF f \in DOMAIN data THEN data[f] ELSE u[f]
                 ELSE u \in users']_vars

\* C28 witness: modifyUser has succeeded with an attribute the mapping does
\* not know; its user still has its login, and another user is stored.
C28_Witness ==
  \E p \in Procs :
    /\ Succeeded(p, "modifyUser")
    /\ "userName" \notin DOMAIN call[p].obj
    /\ Writes(p) # {}
    /\ \E u \in users : u.login = call[p].id
    /\ Cardinality(users) = 2

C30_CreateFailureReported ==
  [][\A p \in Procs :
       ( /\ pc[p] \in {"cu_create", "cg_create"}
         /\ CreateUser(p) \/ CreateGroup(p) \/ StorageFail(p) ) =>
         LET written == users' # users \/ groups' # groups
             held == IF pc[p] = "cu_create"
                     THEN \E u \in users : u.login = call[p].obj.userName
                     ELSE \E g \in groups : g.name = call[p].obj.displayName
         IN /\ res'[p].status = "ok" <=> written
            /\ ~written =>
                 /\ res'[p].status = "error"
                 /\ res'[p].error \in {"duplicateKey", "errorAtField"}
            /\ (CreateUser(p) \/ CreateGroup(p)) =>
                 (res'[p].error = "duplicateKey" <=> held)
            /\ StorageFail(p) => res'[p].error = "errorAtField"]_vars

\* C30 witness: createGroup has been rejected with the duplicate-key error;
\* the group that holds the name is the only one stored.
C30_Witness ==
  \E p \in Procs :
    /\ Failed(p, "createGroup", "duplicateKey")
    /\ \E g \in groups : g.name = call[p].obj.displayName
    /\ Cardinality(groups) = 1
    /\ nextGroup = 1

\* C31: the disconnect of one call never happens while another call is
\* inside main(), with a storage call outstanding or still to issue.
C31_DisconnectAlone ==
  [][\A p \in Procs :
       Disconnect(p) => \A q \in Procs \ {p} : ~InMain(q)]_vars

\* C32: the update of a modifyGroup call that carries no member operation
\* leaves the stored members list of every group as it is at that step,
\* whatever other calls wrote since the call read the group.
C32_ScalarUpdateKeepsMembers ==
  [][\A p \in Procs :
       (MgUpdate(p) /\ call[p].obj.members = <<>>) =>
         \A g \in groups : \A h \in groups' :
           h.id = g.id => h.members = g.members]_vars

\* C33: when deleteUser has resolved, every group it found holding the key
\* of the user stores the list it held at that read without the key, and no
\* other group holds the key.
C33_DeleteUserFrame ==
  \A p \in Procs :
    Succeeded(p, "deleteUser") =>
      \A g \in groups :
        IF \E i \in 1..Len(loc[p].rows) : loc[p].rows[i].id = g.id
        THEN \A i \in 1..Len(loc[p].rows) :
               loc[p].rows[i].id = g.id =>
                 g.members = Without(loc[p].rows[i].members, loc[p].user.id)
        ELSE loc[p].user.id \notin Range(g.members)

\* C34: no step of a modifyGroup call before its update writes to the
\* storage, and the member lookup that finds no user rejects the call there:
\* the update is never issued, so the scalar fields of the group stay as they
\* were along with its members.
C34_MissingMemberWritesNothing ==
  [][\A p \in Procs :
       /\ (MgFind(p) \/ MgUser(p)) => UNCHANGED <<users, groups, inflight>>
       /\ ( /\ MgUser(p)
            /\ MemberUsers(call[p].obj.members[loc[p].memberIndex]) = {} ) =>
            /\ res'[p] = Err("userNotFound")
            /\ pc'[p] = "finally"
            /\ \A i \in 1..Len(log'[p]) :
                 log'[p][i].fn \notin {"create", "update", "delete"}]_vars

\* C34 witness: a modifyGroup call that renames the group and adds a user
\* that does not exist has failed; the group has its old name and members.
C34_Witness ==
  \E p \in Procs :
    /\ Failed(p, "modifyGroup", "userNotFound")
    /\ Writes(p) = {}
    /\ \E g \in groups : /\ g.id = call[p].id
                          /\ g.name # call[p].obj.displayName
                          /\ g.members = loc[p].snapshot

\* C35: a modifyGroup call that has resolved issued one storage write, the
\* update of the group; the patch of that update holds no id, and the group is
\* still stored under the id of the call, whatever id the request carried.
C35_OneUpdateKeepsId ==
  \A p \in Procs :
    Succeeded(p, "modifyGroup") =>
      /\ Cardinality(Writes(p)) = 1
      /\ log[p][Len(log[p])] = [fn |-> "update", on |-> "group"]
      /\ "id" \notin DOMAIN loc[p].data
      /\ \E g \in groups : g.id = call[p].id
      /\ \A g \in groups : g.id \in Range(GroupIds)

\* C35 witness: a modifyGroup request that carries another id and a new name
\* has resolved; the group has the new name under its old id.
C35_Witness ==
  \E p \in Procs :
    /\ Succeeded(p, "modifyGroup")
    /\ "id" \in DOMAIN call[p].obj
    /\ call[p].obj.id # call[p].id
    /\ \E g \in groups : g.id = call[p].id /\ g.name = "ops"

\* C36: createGroup adds only a group with an empty members list, and a group
\* whose stored members list is not empty after a step, and was empty or not
\* stored before it, got the list by the update of a modifyGroup call.
C36_MembersOnlyByModifyGroup ==
  [][/\ \A p \in Procs :
          CreateGroup(p) => \A g \in groups' \ groups : g.members = <<>>
     /\ \A h \in groups' :
          ( /\ h.members # <<>>
            /\ \A g \in groups : g.id = h.id => g.members = <<>> ) =>
            \E p \in Procs : MgUpdate(p)]_vars

\* C37: no step of a modifyUser call changes a group record or dispatches a
\* group update, and every user keeps the storage key it is stored under, so
\* the groups whose members list holds the key of the user are the same
\* before and after the step.
C37_ModifyUserKeepsMembership ==
  [][\A p \in Procs :
       (MuFind(p) \/ MuUpdate(p)) =>
         /\ groups' = groups
         /\ inflight' = inflight
         /\ {u.id : u \in users'} = {u.id : u \in users}
         /\ \A u \in users' :
              {g \in groups' : u.id \in Range(g.members)}
                = {g \in groups : u.id \in Range(g.members)}]_vars

\* C37 witness: a modifyUser call that gave a user another userName has
\* resolved; the user is stored under its old key with the new name and is
\* a member of a group.
C37_Witness ==
  \E p \in Procs :
    /\ Succeeded(p, "modifyUser")
    /\ "userName" \in DOMAIN call[p].obj
    /\ call[p].obj.userName # call[p].id
    /\ \E u \in users : /\ u.id = loc[p].user.id
                         /\ u.login = call[p].obj.userName
                         /\ \E g \in groups : u.id \in Range(g.members)

\* C38: the call of getUsers or getGroups, with any predicate, and every
\* storage step of it leave the stored users and groups, the key counters
\* and the dispatched updates as they are, and the call has issued only find
\* calls.
C38_ReadsAreReadOnly ==
  [][\A p \in Procs :
       ( \/ GuRows(p) \/ GuGroups(p) \/ GgRows(p) \/ GgUsers(p)
         \/ /\ pc[p] = "idle" /\ pc'[p] # "idle"
            /\ call'[p].op \in {"getUsers", "getGroups"} ) =>
         /\ UNCHANGED <<users, groups, nextUser, nextGroup, inflight>>
         /\ \A i \in 1..Len(log'[p]) :
              log'[p][i].fn \in {"findMany", "findUnique", "findFirst"}]_vars

\* C38 witness: a getGroups call has resolved with a group whose stored
\* members list holds a key of no user; the list is still stored.
C38_Witness ==
  \E p \in Procs :
    /\ Succeeded(p, "getGroups")
    /\ loc[p].Resources # <<>>
    /\ Dangling # {}
    /\ \E g \in groups : \E i \in 1..Len(loc[p].rows) :
         g = loc[p].rows[i] /\ Range(g.members) \cap Dangling # {}

\* C39: no step of a deleteGroup call changes a user record or dispatches an
\* update, and the only change it makes to the groups is to remove the group
\* stored under the id of the call: every other group record stays, members
\* list included.
C39_DeleteGroupFrame ==
  [][\A p \in Procs :
       (DgFind(p) \/ DgDelete(p)) =>
         /\ UNCHANGED <<users, nextUser, nextGroup, inflight>>
         /\ groups' \subseteq groups
         /\ \A g \in groups : g.id # call[p].id => g \in groups']_vars

\* C39 witness: deleteGroup has resolved and its group is gone, while another
\* group with a member and the user it names are still stored.
C39_Witness ==
  \E p \in Procs :
    /\ Succeeded(p, "deleteGroup")
    /\ \A g \in groups : g.id # call[p].id
    /\ \E g \in groups : \E u \in users : u.id \in Range(g.members)

====
